---------------------------- MODULE Spec2Model ----------------------------
(***************************************************************************)
(* A model of arxivscraper (src/arxivscraper/arxivscraper.py): the         *)
(* construction of a Scraper (category check against the ListSets          *)
(* vocabulary) and the harvesting loop Scraper.scrape() (paginated         *)
(* ListRecords requests, 503 back-off, record extraction and filtering,    *)
(* progress logging and the soft timeout).                                 *)
(*                                                                         *)
(* Text is a sequence of one-character strings, so that strip, lower,      *)
(* replace and the substring test are computed, not assumed.  The server   *)
(* is the environment: it answers each request with a 503, another HTTP    *)
(* error, or a page.                                                       *)
(***************************************************************************)
EXTENDS Integers, Sequences, FiniteSets, TLC

\* ------------------------------------------------------------- bounds

\* The server delivers at most MaxPages pages to one scrape() call.
MaxPages == 3

\* The history counters of 503 responses and sleeps saturate here.
MaxThrottle == 2

\* The texts of the elements of a record built on its own have at most
\* MaxTextLen characters.
MaxTextLen == 4

\* A record built on its own has at most MaxAuthors authors.
MaxAuthors == 2

\* ------------------------------------------------------------ options

\* Python's None, and a value that is present.
None == [some |-> FALSE]

Some(v) == [some |-> TRUE, val |-> v]

\* --------------------------------------------------------------- text

LowerChar(c) ==
    CASE c = "A" -> "a"
      [] c = "B" -> "b"
      [] c = "X" -> "x"
      [] OTHER -> c

\* str.lower()
lower(s) == [i \in 1..Len(s) |-> LowerChar(s[i])]

IsSpace(c) == c \in {" ", "\n"}

RECURSIVE lstrip(_)
lstrip(s) == IF s # <<>> /\ IsSpace(Head(s)) THEN lstrip(Tail(s)) ELSE s

RECURSIVE rstrip(_)
rstrip(s) ==
    IF s # <<>> /\ IsSpace(s[Len(s)]) THEN rstrip(SubSeq(s, 1, Len(s) - 1)) ELSE s

\* str.strip()
strip(s) == rstrip(lstrip(s))

\* str.replace("\n", " ")
replace_newline(s) == [i \in 1..Len(s) |-> IF s[i] = "\n" THEN " " ELSE s[i]]

\* Python's `sub in s` for two strings.
str_contains(sub, s) ==
    \E i \in 1..(Len(s) - Len(sub) + 1) : SubSeq(s, i, i + Len(sub) - 1) = sub

\* Python's `x in l` for a list l.
list_contains(x, l) == \E i \in 1..Len(l) : l[i] = x

DigitVal(c) ==
    CASE c = "0" -> 0 [] c = "1" -> 1 [] c = "2" -> 2 [] c = "3" -> 3
      [] c = "4" -> 4 [] c = "5" -> 5 [] c = "6" -> 6 [] c = "7" -> 7
      [] c = "8" -> 8 [] c = "9" -> 9

\* int(s) for a string of decimal digits.
RECURSIVE int(_)
int(s) == IF s = <<>> THEN 0 ELSE 10 * int(SubSeq(s, 1, Len(s) - 1)) + DigitVal(s[Len(s)])

\* ------------------------------------------------------- xml elements

\* The result of Element.find(tag): no such element, an element whose .text
\* is None, or an element with text.
Absent == [kind |-> "absent", s |-> <<>>]

NoText == [kind |-> "notext", s |-> <<>>]

Text(s) == [kind |-> "text", s |-> s]

\* An <author> element.
Author(keyname, forenames, affiliation) ==
    [keyname |-> keyname, forenames |-> forenames, affiliation |-> affiliation]

\* A <record> element of a ListRecords page: meta says whether it holds the
\* metadata/arXiv payload.
Fragment(meta, id, title, created, authors) ==
    [meta |-> meta, id |-> id, title |-> title, abstract |-> Absent,
     categories |-> Absent, created |-> created, updated |-> Absent,
     doi |-> Absent, authors |-> authors]

\* A <record> element without payload: Record(None).
NoRecord == Fragment(FALSE, Absent, Absent, Absent, <<>>)

\* ------------------------------------------------------------- Record

\* _get_text that does not strip the text.
_get_text_unstripped(el) ==
    IF el.kind = "text" THEN replace_newline(lower(el.s)) ELSE <<>>

\* Record._get_text: any failure (no element, no text) gives "".
_get_text(el) ==
    IF el.kind = "text" THEN replace_newline(lower(strip(el.s))) ELSE <<>>

\* Record._get_authors raises (AttributeError) when an author has no keyname
\* text, or a forenames element without text.
AuthorsRaise(frag) ==
    \E i \in 1..Len(frag.authors) :
        \/ frag.authors[i].keyname.kind # "text"
        \/ frag.authors[i].forenames.kind = "notext"

last_names(frag) ==
    [i \in 1..Len(frag.authors) |-> lower(frag.authors[i].keyname.s)]

first_names(frag) ==
    [i \in 1..Len(frag.authors) |->
        IF frag.authors[i].forenames.kind # "absent"
        THEN lower(frag.authors[i].forenames.s)
        ELSE <<>>]

full_names(frag) ==
    [i \in 1..Len(frag.authors) |->
        strip(first_names(frag)[i] \o <<" ">> \o last_names(frag)[i])]

\* _get_affiliation that gives "" for an author without affiliation.
_get_affiliation_per_author(frag) ==
    [i \in 1..Len(frag.authors) |->
        IF frag.authors[i].affiliation.kind = "text"
        THEN lower(frag.authors[i].affiliation.s)
        ELSE <<>>]

\* Record._get_affiliation: all authors' affiliations, or [] when any fails.
_get_affiliation(frag) ==
    IF \A i \in 1..Len(frag.authors) : frag.authors[i].affiliation.kind = "text"
    THEN [i \in 1..Len(frag.authors) |-> lower(frag.authors[i].affiliation.s)]
    ELSE <<>>

\* Building a Record that raises for a missing payload only.
RecordRaises_payload_only(frag) == ~frag.meta

\* Whether building the Record of a fragment raises: the payload is missing
\* (scrape line 252-253) or _get_authors raises.
RecordRaises(frag) == ~frag.meta \/ AuthorsRaise(frag)

UrlBase == <<"https://arxiv.org/abs/">>

\* Record(meta).output(): the dictionary of one record.
output(frag) ==
    [title |-> _get_text(frag.title),
     id |-> _get_text(frag.id),
     abstract |-> _get_text(frag.abstract),
     categories |-> _get_text(frag.categories),
     doi |-> _get_text(frag.doi),
     created |-> _get_text(frag.created),
     updated |-> _get_text(frag.updated),
     authors |-> last_names(frag),
     authors_fullnames |-> full_names(frag),
     affiliation |-> _get_affiliation(frag),
     url |-> UrlBase \o _get_text(frag.id)]

\* The keys of the dictionary output() builds.
RecordKeys ==
    {"title", "id", "abstract", "categories", "doi", "created", "updated",
     "authors", "authors_fullnames", "affiliation", "url"}

\* The keys whose value is a list; the others hold a string.
ListKeys == {"authors", "authors_fullnames", "affiliation"}


\* -------------------------------------------------------- environment

\* The set specs of the server's ListSets answer.
Vocabulary == {"cs", "math"}

\* The record fragments the server holds, by name.
FragIds == {"r1", "r2", "bad", "nometa"}

Frag(f) ==
    CASE f = "r1" ->
           Fragment(TRUE, Text(<<"1">>), Text(<<"A", "b">>), Text(<<"d", "1">>),
                    <<Author(Text(<<"B", "a">>), Absent, Text(<<"X">>))>>)
      [] f = "r2" ->
           Fragment(TRUE, Text(<<"2">>), Text(<<" ", "b", "\n">>), Absent, <<>>)
      [] f = "bad" ->
           Fragment(TRUE, Text(<<"3">>), Text(<<"a">>), Absent,
                    <<Author(Absent, Text(<<"A">>), Absent)>>)
      [] f = "nometa" ->
           Fragment(FALSE, Absent, Absent, Absent, <<>>)

\* The record lists a page may carry.
PageRecords == {<<>>, <<"r1">>, <<"r2", "r1">>, <<"bad">>, <<"nometa", "r1">>}

\* The text of a resumption token.
Tokens == {<<"t", "1">>, <<"t", "2">>}

\* A 200 answer to ListRecords: without a ListRecords element (and so with
\* neither records nor token), or with one, its records and its
\* resumptionToken element.
Pages ==
    {[list |-> FALSE, records |-> <<>>, token |-> Absent]}
    \cup [list : {TRUE}, records : PageRecords,
          token : {Absent, NoText} \cup {Text(t) : t \in Tokens}]

\* The retry-after header of a 503 answer.
Headers == {None, Some(<<"1", "2">>)}

\* The status of an HTTPError that is not a 503.
ErrorCodes == {404, 500}

\* time.time() - loop_start of one loop iteration, in seconds.
Durations == {0, 1}

\* The characters of the texts of a record built on its own: a capital, a
\* small letter and the two kinds of whitespace.
Alphabet == {"A", "b", " ", "\n"}

Texts == UNION {[1..n -> Alphabet] : n \in 0..MaxTextLen}

\* What find(tag) may give for a scalar field.
Elements == {Absent, NoText} \cup {Text(s) : s \in Texts}

\* The fields Record.__init__ reads with _get_text.
ScalarFields == {"id", "title", "abstract", "categories", "doi", "created", "updated"}

\* The <author> elements of a record built on its own.
AuthorChoices ==
    {Author(Text(<<"B", "a">>), f, a) :
        f \in {Absent, Text(<<"A">>)}, a \in {Absent, Text(<<"X">>)}}
    \cup {Author(Text(<<"B", "a", " ">>), Absent, Text(<<"X">>)),
          Author(Absent, Text(<<"A">>), Text(<<"X">>)),
          Author(Text(<<"B", "a">>), NoText, Text(<<"X">>)),
          Author(Text(<<"B", "a">>), Absent, NoText)}

AuthorLists == UNION {[1..n -> AuthorChoices] : n \in 0..MaxAuthors}

\* A well-formed arXiv payload, each scalar field with a text of its own.
SoundRecord ==
    [meta |-> TRUE, id |-> Text(<<"1">>), title |-> Text(<<"A", "b">>),
     abstract |-> Text(<<"b", "b">>), categories |-> Text(<<"c">>),
     created |-> Text(<<"d", "1">>), updated |-> Text(<<"d", "2">>),
     doi |-> Text(<<"9">>), authors |-> <<>>]

\* The payloads a Record is built from on its own: one scalar field or the
\* authors varied, or no payload at all.
XmlRecords ==
    {[SoundRecord EXCEPT ![k] = el] : k \in ScalarFields, el \in Elements}
    \cup {[SoundRecord EXCEPT !.authors = l] : l \in AuthorLists}
    \cup {NoRecord}

\* ------------------------------------------------------------- inputs

CategoryChoices == {"cs", "zz"}

TimeoutChoices == {None, Some(0), Some(1)}

ProgressChoices == {0, 1}

\* The date_from and date_until arguments: None, or a date as text.
DateFromChoices == {None, Some(<<"2020-01-01">>)}

DateUntilChoices == {None, Some(<<"2020-02-01">>)}

\* The filters argument: None, or a dictionary from key to words.
FilterChoices ==
    {None,
     Some(<<>>),
     Some([title |-> {<<"A">>, <<"z">>}, id |-> {<<"9">>}]),
     Some([authors |-> {<<"b">>}]),
     Some([subcats |-> {<<"a">>}])}

\* ----------------------------------------------------------- constants

\* Category(retries=5)
Retries == 5

\* e.hdrs.get("retry-after", 5)
DefaultWait == 5

\* -------------------------------------------------------------- state

VARIABLES
    pc,             \* where the program is: listsets, ls_sleep, ready, fetch, sleep, done, raised
    err,            \* the exception that propagated, "" if none
    category,       \* self.category
    date_from,      \* the date_from argument
    date_until,     \* the date_until argument
    progress_every, \* self.progress_every
    timeout,        \* self.timeout
    filters,        \* the filters argument, then self.filters
    append_all,     \* self.append_all
    self_url,       \* self.url
    categories,     \* Category().categories: None until (unless) retrieved
    attempt,        \* i of the loop of _get_categories
    wait,           \* the seconds of the current time.sleep
    url,            \* url of scrape()
    results,        \* results of scrape()
    lastlog,        \* lastlog of scrape()
    elapsed,        \* elapsed of scrape()
    ret,            \* the value scrape() returned, None before
    retry_after,    \* history: the retry-after header of the 503 being slept on
    status,         \* history: the HTTP status of the last answer, 0 before any
    nreq,           \* history: ListRecords requests issued
    n503,           \* history: 503 answers to ListRecords
    nsleep,         \* history: sleeps finished in scrape()
    npages,         \* history: pages fetched by scrape()
    delivered,      \* history: the fragments of the pages fetched, in order
    lastpage,       \* history: the last page fetched
    xml_record,     \* the xml_record argument of Record(...)
    record_dict     \* Record(xml_record).output(), None before it is built

vars ==
    <<pc, err, category, date_from, date_until, progress_every, timeout, filters,
      append_all, self_url, categories, attempt, wait, url, results, lastlog,
      elapsed, ret, retry_after, status, nreq, n503, nsleep, npages, delivered, lastpage,
      xml_record, record_dict>>

\* The arguments of the constructor, which no step changes until it assigns them.
args == <<category, date_from, date_until, progress_every, timeout, filters>>

\* The locals of scrape().
locals == <<url, results, lastlog, elapsed>>

\* The history of the exchange with the server.
history == <<nreq, n503, nsleep, npages, delivered, lastpage>>

\* The Record built on its own, outside scrape().
extraction == <<xml_record, record_dict>>

\* The locals of scrape() before it runs and after it is left by an exception.
NoLocals == [url |-> <<>>, results |-> <<>>, lastlog |-> 0, elapsed |-> 0]

\* lastpage before any page is fetched.
NoPage == [list |-> FALSE, records |-> <<>>, token |-> Absent]

Min(a, b) == IF a < b THEN a ELSE b

\* The cap of the request counter.
ReqCap == MaxPages + MaxThrottle + 1

\* ------------------------------------------------------------ helpers

\* int(e.hdrs.get("retry-after", 5))
RetryWait(header) == IF header.some THEN int(header.val) ELSE DefaultWait

\* The url of the first request, built by __init__.
InitialUrl(cat, from, until) ==
    <<<<"verb", <<"ListRecords">>>>, <<"metadataPrefix", <<"arXiv">>>>, <<"set", <<cat>>>>>>
    \o (IF from.some THEN <<<<"from", from.val>>>> ELSE <<>>)
    \o (IF until.some THEN <<<<"until", until.val>>>> ELSE <<>>)

\* A continuation url that keeps the category of the first request.
ResumeUrl_with_set(token) ==
    <<<<"verb", <<"ListRecords">>>>, <<"set", <<category>>>>, <<"resumptionToken", token>>>>

\* The url of a continuation request.
ResumeUrl(token) == <<<<"verb", <<"ListRecords">>>>, <<"resumptionToken", token>>>>

\* The dictionary self.filters of a filters argument.
FiltersOf(arg) == IF arg.some THEN arg.val ELSE <<>>

\* `word.lower() in record[key]`, for a key of the record.
word_in(word, record, key) ==
    IF key \in ListKeys
    THEN list_contains(lower(word), record[key])
    ELSE str_contains(lower(word), record[key])

\* record[key] raises KeyError for some key the loops reach.
FilterRaises(f) == \E key \in DOMAIN f : key \notin RecordKeys /\ f[key] # {}

\* save_record after the loops over self.keys and self.filters[key].
save_record(record, f) ==
    \E key \in DOMAIN f : \E word \in f[key] : word_in(word, record, key)

\* A record put in front of the results.
append_front(rs, record) == <<record>> \o rs

\* results after results.append(record)
append(rs, record) == Append(rs, record)

\* The loop over the records of a page: the results, or the error that ends it.
RECURSIVE process_records(_, _, _, _)
process_records(frags, rs, all, f) ==
    IF frags = <<>> THEN [err |-> "", results |-> rs]
    ELSE IF RecordRaises(Frag(Head(frags))) THEN [err |-> "AttributeError", results |-> rs]
    ELSE IF all THEN process_records(Tail(frags), append(rs, output(Frag(Head(frags)))), all, f)
    ELSE IF FilterRaises(f) THEN [err |-> "KeyError", results |-> rs]
    ELSE IF save_record(output(Frag(Head(frags))), f)
         THEN process_records(Tail(frags), append(rs, output(Frag(Head(frags)))), all, f)
         ELSE process_records(Tail(frags), rs, all, f)

\* --------------------------------------------------------------- Init

\* Scraper(category, ...) has been called and Category() is about to issue its
\* first ListSets request.
Start(cat, from, until, every, tmo, flt) ==
    /\ pc = "listsets"
    /\ err = ""
    /\ category = cat
    /\ date_from = from
    /\ date_until = until
    /\ progress_every = every
    /\ timeout = tmo
    /\ filters = flt
    /\ append_all = FALSE
    /\ self_url = <<>>
    /\ categories = None
    /\ attempt = 0
    /\ wait = 0
    /\ url = <<>>
    /\ results = <<>>
    /\ lastlog = 0
    /\ elapsed = 0
    /\ ret = None
    /\ retry_after = None
    /\ status = 0
    /\ nreq = 0
    /\ n503 = 0
    /\ nsleep = 0
    /\ npages = 0
    /\ delivered = <<>>
    /\ lastpage = NoPage
    /\ xml_record = NoRecord
    /\ record_dict = None

Init ==
    \E cat \in CategoryChoices, every \in ProgressChoices, tmo \in TimeoutChoices,
       flt \in FilterChoices :
        Start(cat, None, None, every, tmo, flt)

\* The constructor called with and without date bounds, the other arguments
\* at their defaults but for progress_every.
InitDates ==
    \E cat \in CategoryChoices, from \in DateFromChoices, until \in DateUntilChoices :
        Start(cat, from, until, 1, None, None)

\* -------------------------------------------------- Scraper.__init__

\* The rest of __init__ once check_category has returned: the url and the
\* filters.
Constructed ==
    /\ self_url' = InitialUrl(category, date_from, date_until)
    /\ filters' = Some(FiltersOf(filters))
    /\ append_all' = (DOMAIN FiltersOf(filters) = {})
    /\ pc' = "ready"

\* check_category without its raise: an unknown category is let through.
check_category_lenient(valid) == Constructed /\ err' = ""

\* check_category with the categories retrieved: raises KeyError for a
\* category that is not among them.
check_category(valid) ==
    IF category \in valid
    THEN Constructed /\ err' = ""
    ELSE /\ pc' = "raised"
         /\ err' = "KeyError"
         /\ UNCHANGED <<self_url, filters, append_all>>

\* _get_categories: urlopen answers 503.
ListSets503 ==
    /\ pc = "listsets"
    /\ \E header \in Headers : wait' = RetryWait(header) /\ retry_after' = header
    /\ pc' = "ls_sleep"
    /\ status' = 503
    /\ UNCHANGED extraction
    /\ UNCHANGED <<err, category, date_from, date_until, progress_every, timeout,
                   filters, append_all, self_url, categories, attempt, locals, ret,
                   history>>

\* A retry loop that makes one request more than `retries`.
attempts_left_one_more(i) == i < Retries

\* `for i in range(self.retries)` (line 40): whether an attempt follows
\* attempt i.
attempts_left(i) == i + 1 < Retries

\* _get_categories: time.sleep(wait) ends; the loop goes on, or is exhausted
\* and categories stays None, which check_category lets pass.
ListSetsSleep ==
    /\ pc = "ls_sleep"
    /\ wait' = 0
    /\ retry_after' = None
    /\ IF attempts_left(attempt)
       THEN /\ attempt' = attempt + 1
            /\ pc' = "listsets"
            /\ UNCHANGED <<self_url, filters, append_all>>
       ELSE /\ attempt' = 0
            /\ Constructed
    /\ UNCHANGED extraction
    /\ UNCHANGED <<err, category, date_from, date_until, progress_every, timeout,
                   categories, locals, ret, status, history>>

\* _get_categories: urlopen raises an HTTPError that is not a 503.
ListSetsError ==
    /\ pc = "listsets"
    /\ pc' = "raised"
    /\ err' = "HTTPError"
    /\ \E code \in ErrorCodes : status' = code
    /\ UNCHANGED extraction
    /\ UNCHANGED <<category, date_from, date_until, progress_every, timeout, filters,
                   append_all, self_url, categories, attempt, wait, locals, ret,
                   retry_after, history>>

\* _get_categories: urlopen succeeds; the sets are read and check_category
\* looks the category up.
ListSetsOk ==
    /\ pc = "listsets"
    /\ status' = 200
    /\ categories' = Some(Vocabulary)
    /\ attempt' = 0
    /\ check_category(Vocabulary)
    /\ UNCHANGED extraction
    /\ UNCHANGED <<category, date_from, date_until, progress_every, timeout, wait,
                   locals, ret, retry_after, history>>

\* ---------------------------------------------------- Scraper.scrape

\* scrape() is called: lines 228-233.
ScrapeStart ==
    /\ pc = "ready"
    /\ url' = self_url
    /\ results' = <<>>
    /\ lastlog' = 0
    /\ elapsed' = 0
    /\ pc' = "fetch"
    /\ UNCHANGED extraction
    /\ UNCHANGED <<err, category, date_from, date_until, progress_every, timeout,
                   filters, append_all, self_url, categories, attempt, wait, ret,
                   retry_after, status, history>>

\* The handler of a 503 that ignores the retry-after header.
throttle_wait_fixed(header) == DefaultWait

\* The handler of a 503: the wait of the sleep that follows (lines 240-243).
throttle_wait(header) == RetryWait(header)

\* urlopen(url) answers 503: scrape sleeps, everything else as it was.
Fetch503 ==
    /\ pc = "fetch"
    /\ \E header \in Headers : wait' = throttle_wait(header) /\ retry_after' = header
    /\ pc' = "sleep"
    /\ status' = 503
    /\ nreq' = Min(nreq + 1, ReqCap)
    /\ n503' = Min(n503 + 1, MaxThrottle)
    /\ UNCHANGED extraction
    /\ UNCHANGED <<err, category, date_from, date_until, progress_every, timeout,
                   filters, append_all, self_url, categories, attempt, locals, ret,
                   nsleep, npages, delivered, lastpage>>

\* A sleep whose seconds are counted towards the timeout.
Sleep_counted ==
    /\ pc = "sleep"
    /\ wait' = 0
    /\ retry_after' = None
    /\ pc' = "fetch"
    /\ nsleep' = Min(nsleep + 1, MaxThrottle)
    /\ elapsed' = elapsed + wait
    /\ UNCHANGED extraction
    /\ UNCHANGED <<err, category, date_from, date_until, progress_every, timeout,
                   filters, append_all, self_url, categories, attempt, url, results,
                   lastlog, ret, status, nreq, n503, npages, delivered, lastpage>>

\* time.sleep(wait) ends and `continue` starts the next iteration.
Sleep ==
    /\ pc = "sleep"
    /\ wait' = 0
    /\ retry_after' = None
    /\ pc' = "fetch"
    /\ nsleep' = Min(nsleep + 1, MaxThrottle)
    /\ UNCHANGED extraction
    /\ UNCHANGED <<err, category, date_from, date_until, progress_every, timeout,
                   filters, append_all, self_url, categories, attempt, locals, ret,
                   status, nreq, n503, npages, delivered, lastpage>>

\* An HTTPError that is not a 503 handled by leaving the loop: scrape()
\* returns what it has.
http_error_swallowed ==
    [pc |-> "done", err |-> "", ret |-> Some(results), url |-> url,
     results |-> results, lastlog |-> lastlog, elapsed |-> elapsed]

\* Where an HTTPError that is not a 503 leaves scrape(): it is raised again,
\* and nothing is returned.
http_error == [pc |-> "raised", err |-> "HTTPError", ret |-> None] @@ NoLocals

\* urlopen(url) raises an HTTPError that is not a 503 (lines 245-247).
FetchError ==
    /\ pc = "fetch"
    /\ pc' = http_error.pc
    /\ err' = http_error.err
    /\ ret' = http_error.ret
    /\ url' = http_error.url
    /\ results' = http_error.results
    /\ lastlog' = http_error.lastlog
    /\ elapsed' = http_error.elapsed
    /\ \E code \in ErrorCodes : status' = code
    /\ nreq' = Min(nreq + 1, ReqCap)
    /\ UNCHANGED extraction
    /\ UNCHANGED <<category, date_from, date_until, progress_every, timeout, filters,
                   append_all, self_url, categories, attempt, wait, retry_after,
                   n503, nsleep, npages, delivered, lastpage>>

\* End of stream without the test of the token's text: only a missing element
\* ends the loop.
end_of_stream_absent_only(page) == ~page.list \/ page.token.kind = "absent"

\* End of stream that also takes a page without records for the end.
end_of_stream_on_empty(page) ==
    ~page.list \/ page.token.kind # "text" \/ page.records = <<>>

\* Lines 266-273: whether the loop ends at this page for want of a
\* ListRecords element or of a token text.
end_of_stream(page) == ~page.list \/ page.token.kind # "text"

\* Line 278: whether a progress entry is logged.
progress_due(since) == since > progress_every

\* Line 284: whether the timeout ends the loop.
timed_out(spent) == timeout.some /\ spent >= timeout.val

\* Lines 274-285, after a page with a token: the next url, the progress entry
\* (results[-1] raises IndexError on empty results) and the timeout.  The
\* locals and the way the iteration ends.
loop_tail(rs, token, duration) ==
    IF progress_due(lastlog + duration) /\ rs = <<>>
    THEN [pc |-> "raised", err |-> "IndexError"] @@ NoLocals
    ELSE [pc |-> IF timed_out(elapsed + duration) THEN "done" ELSE "fetch",
          err |-> "", url |-> ResumeUrl(token), results |-> rs,
          lastlog |-> IF progress_due(lastlog + duration) THEN 0 ELSE lastlog + duration,
          elapsed |-> elapsed + duration]

\* One iteration of the loop on a 200 answer (lines 248-285): the locals and
\* the way the iteration ends.
iteration(page, duration) ==
    LET it(got) ==
        IF got.err # ""
        THEN [pc |-> "raised", err |-> got.err] @@ NoLocals
        ELSE IF end_of_stream(page)
        THEN [pc |-> "done", err |-> "", url |-> url, results |-> got.results,
              lastlog |-> lastlog, elapsed |-> elapsed]
        ELSE loop_tail(got.results, page.token.s, duration)
    IN  it(process_records(page.records, results, append_all, filters.val))

\* urlopen(url) answers 200 with a page.  The server issues a token only while
\* it has pages left.
FetchPage ==
    /\ pc = "fetch"
    /\ \E page \in Pages, duration \in Durations :
        /\ page.token.kind = "text" => npages + 1 < MaxPages
        /\ \E next \in {iteration(page, duration)} :
               /\ pc' = next.pc
               /\ err' = next.err
               /\ url' = next.url
               /\ results' = next.results
               /\ lastlog' = next.lastlog
               /\ elapsed' = next.elapsed
               /\ ret' = IF next.pc = "done" THEN Some(next.results) ELSE None
        /\ delivered' = delivered \o page.records
        /\ lastpage' = page
    /\ status' = 200
    /\ nreq' = Min(nreq + 1, ReqCap)
    /\ npages' = npages + 1
    /\ UNCHANGED extraction
    /\ UNCHANGED <<category, date_from, date_until, progress_every, timeout, filters,
                   append_all, self_url, categories, attempt, wait, retry_after,
                   n503, nsleep>>

\* ------------------------------------------------------------- Record

\* Record(xml_record) is about to be built on its own: no Scraper runs.
ExtractInit ==
    /\ xml_record \in XmlRecords
    /\ record_dict = None
    /\ pc = "record"
    /\ err = ""
    /\ category = "cs"
    /\ date_from = None
    /\ date_until = None
    /\ progress_every = 0
    /\ timeout = None
    /\ filters = None
    /\ append_all = FALSE
    /\ self_url = <<>>
    /\ categories = None
    /\ attempt = 0
    /\ wait = 0
    /\ url = <<>>
    /\ results = <<>>
    /\ lastlog = 0
    /\ elapsed = 0
    /\ ret = None
    /\ retry_after = None
    /\ status = 0
    /\ nreq = 0
    /\ n503 = 0
    /\ nsleep = 0
    /\ npages = 0
    /\ delivered = <<>>
    /\ lastpage = NoPage

\* Record(xml_record).output(): the dictionary, or the AttributeError of
\* _get_authors.
RecordInit ==
    /\ pc = "record"
    /\ IF RecordRaises(xml_record)
       THEN /\ pc' = "raised"
            /\ err' = "AttributeError"
            /\ record_dict' = None
       ELSE /\ pc' = "built"
            /\ err' = ""
            /\ record_dict' = Some(output(xml_record))
    /\ UNCHANGED <<category, date_from, date_until, progress_every, timeout, filters,
                   append_all, self_url, categories, attempt, wait, locals, ret,
                   retry_after, status, history, xml_record>>

ExtractNext == RecordInit

ExtractSpec == ExtractInit /\ [][ExtractNext]_vars

\* ---------------------------------------------------------------- Next

Next ==
    \/ ListSets503
    \/ ListSetsSleep
    \/ ListSetsError
    \/ ListSetsOk
    \/ ScrapeStart
    \/ Fetch503
    \/ Sleep
    \/ FetchError
    \/ FetchPage

Spec == Init /\ [][Next]_vars

\* The program keeps running while it has a step to take; the server is free
\* to answer as it likes.
FairSpec == Spec /\ WF_vars(Next)

\* The same program, constructed with and without date bounds.
UrlSpec == InitDates /\ [][Next]_vars

\* ------------------------------------------------------------- claims

\* The records of a sequence of fragments, in order.
outputs(frags) == [i \in 1..Len(frags) |-> output(Frag(frags[i]))]

\* The records of a page that scrape() is to keep.
Kept(frags) ==
    IF append_all
    THEN outputs(frags)
    ELSE SelectSeq(outputs(frags), LAMBDA r : save_record(r, filters.val))

\* A step of scrape() that issues a request and gets this kind of answer.
Answered(code) == pc = "fetch" /\ status' = code

\* C1: with no filters and no timeout, and a server that answers with pages
\* and 503s only, scrape() returns, after the page without a token, exactly
\* the records of all the pages fetched, in the order delivered.
C1_AllRecordsReturned ==
    (/\ pc \in {"done", "raised"}
     /\ npages > 0
     /\ append_all
     /\ ~timeout.some
     /\ err \notin {"HTTPError", "AttributeError"})
    => (/\ pc = "done"
        /\ end_of_stream(lastpage)
        /\ ret = Some(outputs(delivered)))

\* The filter as C2 states it: some word of some key, lowercased, is a
\* substring of the field, or of one of its entries when the field is a list.
found_within(record, f) ==
    \E key \in DOMAIN f : \E word \in f[key] :
        IF key \in ListKeys
        THEN \E i \in 1..Len(record[key]) : str_contains(lower(word), record[key][i])
        ELSE str_contains(lower(word), record[key])

\* C2: with a non-empty filter over keys of the record, what scrape() returns
\* is the records delivered in which at least one word of the filter is found
\* as a substring of its field, list-valued fields included.
C2_FilterBySubstring ==
    (pc = "done" /\ ~append_all /\ DOMAIN filters.val \subseteq RecordKeys)
    => ret = Some(SelectSeq(outputs(delivered), LAMBDA r : found_within(r, filters.val)))

\* Each 503 has been slept on once, but for the one being slept on (while the
\* counters have not saturated).
SleepsMatch ==
    n503 < MaxThrottle =>
        IF pc = "sleep" THEN n503 = nsleep + 1 ELSE n503 = nsleep

\* C3: a 503 answer in scrape() leads to one sleep, of the retry-after
\* header's integer value or of 5 seconds without the header, and then to the
\* same request again: the url, the results and the return value are as they
\* were, and sleeps and 503s stay paired.
C3_ThrottleRetry ==
    [][/\ Answered(503) =>
            /\ pc' = "sleep"
            /\ wait' = (IF retry_after' = None THEN 5 ELSE 12)
            /\ url' = url
            /\ results' = results
            /\ ret' = None
       /\ pc = "sleep" =>
            /\ pc' = "fetch"
            /\ url' = url
            /\ results' = results
            /\ ret' = None
       /\ SleepsMatch']_vars

\* C3's case: one 503, one sleep, then the page with all its records.
C3_Witness ==
    /\ pc = "done"
    /\ n503 = 1
    /\ nsleep = 1
    /\ npages = 1
    /\ nreq = 2
    /\ append_all
    /\ ret = Some(outputs(<<"r2", "r1">>))

\* C4: an HTTP error that is not a 503 leaves scrape() at once by the
\* exception: no sleep, no return value even after pages with records, and no
\* step after it.
C4_ErrorPropagates ==
    [][/\ pc # "raised"
       /\ (pc = "fetch" /\ status' \notin {200, 503}) =>
            /\ pc' = "raised"
            /\ err' = "HTTPError"
            /\ ret' = None
            /\ nsleep' = nsleep
            /\ wait' = wait]_vars

\* C4's case: the error comes on the second request, after a page whose
\* records were collected.
C4_Witness ==
    /\ pc = "raised"
    /\ err = "HTTPError"
    /\ status = 500
    /\ npages = 1
    /\ delivered = <<"r2", "r1">>
    /\ ret = None

\* C5: after a page whose records were processed, scrape() returns the
\* results, this page's included, when the page has no resumptionToken
\* element or one without text; it goes on to a further request only with a
\* token text, which the next url carries.
C5_TokenEndsStream ==
    [][(Answered(200) /\ err' = "") =>
            /\ lastpage'.token.kind # "text" =>
                 /\ pc' = "done"
                 /\ results' = results \o Kept(lastpage'.records)
                 /\ ret' = Some(results')
            /\ pc' = "fetch" =>
                 /\ lastpage'.token.kind = "text"
                 /\ lastpage'.token.s # <<>>
                 /\ url' = ResumeUrl(lastpage'.token.s)]_vars

\* C5's case: the second page has a resumptionToken element without text, and
\* its record is returned after those of the first page.
C5_Witness ==
    /\ pc = "done"
    /\ npages = 2
    /\ nreq = 2
    /\ lastpage = [list |-> TRUE, records |-> <<"r1">>, token |-> NoText]
    /\ append_all
    /\ ret = Some(outputs(<<"r2", "r1", "r1">>))

\* C6 as stated: a page fetched without a ListRecords element or without
\* records ends the loop, so that no further request follows it, whatever its
\* token.
C6_EmptyPageEndsLoop ==
    [][(Answered(200) /\ (~lastpage'.list \/ lastpage'.records = <<>>))
            => pc' # "fetch"]_vars

\* C6 amended: a page without a ListRecords element ends the loop and
\* scrape() returns the results as they were; a ListRecords element without
\* records does not: with a token text the next request, for that token,
\* follows, unless the timeout is reached or the progress entry raises on
\* the empty results.
C6_MissingListEndsLoop ==
    [][Answered(200) =>
            /\ ~lastpage'.list =>
                 /\ pc' = "done"
                 /\ ret' = Some(results)
            /\ (/\ lastpage'.list
                /\ lastpage'.records = <<>>
                /\ lastpage'.token.kind = "text") =>
                 \/ /\ pc' = "fetch"
                    /\ url' = ResumeUrl(lastpage'.token.s)
                    /\ results' = results
                 \/ /\ pc' = "done"
                    /\ timeout.some
                    /\ elapsed' >= timeout.val
                    /\ ret' = Some(results)
                 \/ /\ pc' = "raised"
                    /\ err' = "IndexError"
                    /\ results = <<>>]_vars

\* C6's case: the first page holds a ListRecords element with a token and no
\* record, and the request for the token has been issued and answered.
C6_Witness ==
    /\ npages = 2
    /\ nreq = 2
    /\ delivered = <<"r1">>
    /\ lastpage.records = <<"r1">>
    /\ pc = "done"
    /\ ret = Some(outputs(<<"r1">>))

\* C7: once the elapsed time has reached the timeout no further page is
\* fetched, and with timeout=0 scrape() returns, without an error, after the
\* first page fetched, with what it keeps of that page's records.
C7_SoftTimeout ==
    /\ (timeout.some /\ pc \in {"fetch", "sleep"} /\ npages > 0) => elapsed < timeout.val
    /\ (/\ timeout = Some(0)
        /\ npages > 0
        /\ err \notin {"HTTPError", "AttributeError", "KeyError"})
       => (/\ pc = "done"
           /\ err = ""
           /\ npages = 1
           /\ ret = Some(Kept(lastpage.records)))

\* C8: with a timeout configured scrape() does not go on retrying for ever:
\* from any request on it eventually returns or raises.
C8_TimeoutBoundsRetries ==
    [](((pc = "fetch" /\ timeout.some) => <>(pc \in {"done", "raised"})))

\* C9: the progress entry raises no error, whatever the results hold when
\* it is due.
C9_ProgressRaisesNothing == err # "IndexError"

\* C10: once the vocabulary is retrieved, a category that is not in it has
\* made the constructor raise KeyError, with no url built and no ListRecords
\* request issued; a category that is in it has been let through.
C10_InvalidCategoryRaises ==
    categories.some =>
        IF category \notin categories.val
        THEN /\ pc = "raised"
             /\ err = "KeyError"
             /\ nreq = 0
             /\ self_url = <<>>
        ELSE \/ pc \in {"ready", "fetch", "sleep", "done"}
             \/ pc = "raised" /\ nreq > 0

\* C10's case: the vocabulary was retrieved and does not hold the category.
C10_Witness ==
    /\ categories = Some(Vocabulary)
    /\ category = "zz"
    /\ pc = "raised"
    /\ err = "KeyError"
    /\ status = 200
    /\ nreq = 0

\* A step of _get_categories that issues the ListSets request and gets this
\* kind of answer.
ListSetsAnswered(code) == pc = "listsets" /\ status' = code

\* C11: _get_categories issues its requests one per attempt, attempts 0 to
\* 4 only; a 503 is slept on (retry-after or 5 seconds) and followed by the
\* next attempt, or after the fifth by a Scraper constructed without
\* categories and without an error, whose scrape() then starts whatever the
\* category; a success ends the requests; any other HTTP error is raised.
C11_ListSetsRetries ==
    [][/\ pc = "listsets" => attempt < 5
       /\ ListSetsAnswered(503) =>
            /\ pc' = "ls_sleep"
            /\ wait' = (IF retry_after' = None THEN 5 ELSE 12)
            /\ attempt' = attempt
       /\ pc = "ls_sleep" =>
            IF attempt < 4
            THEN pc' = "listsets" /\ attempt' = attempt + 1
            ELSE /\ pc' = "ready"
                 /\ err' = ""
                 /\ categories' = None
                 /\ self_url' # <<>>
       /\ ListSetsAnswered(200) =>
            /\ pc' \in {"ready", "raised"}
            /\ categories'.some
       /\ (pc = "listsets" /\ status' \notin {200, 503}) =>
            /\ pc' = "raised"
            /\ err' = "HTTPError"
            /\ self_url' = <<>>
       /\ (pc = "ready" /\ ~categories.some) =>
            /\ pc' = "fetch"
            /\ url' = self_url]_vars

\* C11's case: all the ListSets attempts were throttled, and scrape() ran for
\* a category the vocabulary does not hold and returned a page's records.
C11_Witness ==
    /\ categories = None
    /\ category = "zz"
    /\ pc = "done"
    /\ npages = 1
    /\ append_all
    /\ ret = Some(outputs(<<"r2", "r1">>))

Malformed(f) ==
    \/ ~Frag(f).meta
    \/ \E a \in 1..Len(Frag(f).authors) : Frag(f).authors[a].keyname.kind = "absent"

\* C13: a page fetched that holds a malformed record makes scrape() raise at
\* that record (AttributeError, unless the filter raised on a record before
\* it): nothing is returned, whatever the earlier pages held, and no step
\* follows the raise.
C13_MalformedRecordRaises ==
    [][/\ pc # "raised"
       /\ \A i \in 1..Len(lastpage'.records) :
            (Answered(200) /\ Malformed(lastpage'.records[i])) =>
                /\ pc' = "raised"
                /\ \/ err' = "AttributeError"
                   \/ err' = "KeyError" /\ i > 1 /\ ~append_all
                /\ ret' = None
                /\ npages' = npages + 1]_vars

\* C13's case: the second page holds a record without payload, followed by a
\* sound one, after a first page whose records were collected.
C13_Witness ==
    /\ pc = "raised"
    /\ err = "AttributeError"
    /\ npages = 2
    /\ delivered = <<"r2", "r1", "nometa", "r1">>
    /\ append_all
    /\ ret = None

\* C14: with a filters dictionary whose keys are among those documented for
\* Scraper (subcats, author, title, abstract), processing the records of a
\* page raises no KeyError, and what scrape() returns is the records
\* delivered that match.
C14_DocumentedKeysAccepted ==
    (/\ npages > 0
     /\ DOMAIN FiltersOf(filters) # {}
     /\ DOMAIN FiltersOf(filters) \subseteq {"subcats", "author", "title", "abstract"})
    => (/\ err # "KeyError"
        /\ pc = "done" => ret = Some(Kept(delivered)))

\* The contiguous parts of s.
Slices(s) == {SubSeq(s, a, b) : a \in 1..(Len(s) + 1), b \in 0..Len(s)}

\* v is s without its leading and trailing whitespace.
IsStripOf(v, s) ==
    \E a \in 1..(Len(s) + 1), b \in 0..Len(s) :
        /\ a <= b + 1
        /\ \A i \in 1..(a - 1) : s[i] \in {" ", "\n"}
        /\ \A i \in (b + 1)..Len(s) : s[i] \in {" ", "\n"}
        /\ a <= b => (s[a] \notin {" ", "\n"} /\ s[b] \notin {" ", "\n"})
        /\ v = SubSeq(s, a, b)

\* v is s with capitals made small and each newline made a space.
IsNormalOf(v, s) ==
    /\ Len(v) = Len(s)
    /\ \A i \in 1..Len(s) :
        v[i] = (CASE s[i] = "A" -> "a" [] s[i] = "\n" -> " " [] OTHER -> s[i])

\* Building the Record raised for want of a payload or over an author's
\* names, not over a scalar field or an affiliation.
RaisedOverNames ==
    \/ ~xml_record.meta
    \/ \E i \in 1..Len(xml_record.authors) :
        \/ xml_record.authors[i].keyname.kind # "text"
        \/ xml_record.authors[i].forenames.kind = "notext"

\* C15: no scalar field makes building a Record raise; in the dictionary
\* each scalar field is "" when its element is absent or has no text, and
\* otherwise the element text without surrounding whitespace, in small
\* letters, with each newline a space; url is the base followed by id.
C15_ScalarFields ==
    /\ pc = "raised" => RaisedOverNames
    /\ pc = "built" =>
        /\ \A k \in ScalarFields :
            IF xml_record[k].kind # "text"
            THEN record_dict.val[k] = <<>>
            ELSE \E core \in Slices(xml_record[k].s) :
                    /\ IsStripOf(core, xml_record[k].s)
                    /\ IsNormalOf(record_dict.val[k], core)
        /\ record_dict.val.url = <<"https://arxiv.org/abs/">> \o record_dict.val.id

\* C15's case: an abstract with a leading space, a capital and a newline
\* between two letters.
C15_Witness ==
    /\ pc = "built"
    /\ xml_record.abstract = Text(<<" ", "A", "\n", "b">>)
    /\ record_dict.val.abstract = <<"a", " ", "b">>
    /\ record_dict.val.title = <<"a", "b">>
    /\ record_dict.val.url = <<"https://arxiv.org/abs/", "1">>

\* v is s with its capitals made small.
IsLowerOf(v, s) ==
    /\ Len(v) = Len(s)
    /\ \A i \in 1..Len(s) :
        v[i] = (CASE s[i] = "A" -> "a" [] s[i] = "B" -> "b" [] s[i] = "X" -> "x"
                  [] OTHER -> s[i])

\* The text of an author's forenames in small letters, "" without the element.
GivenName(author) == lower(author.forenames.s)

\* C16: a payload whose authors all have a surname text gives a Record, in
\* which authors and authors_fullnames have one entry per author, in
\* document order: the surname in small letters, and the given name in small
\* letters, a space and the surname, without surrounding whitespace; for an
\* author without forenames element the full name is the surname itself.
C16_AuthorsAndFullNames ==
    (/\ pc # "record"
     /\ xml_record.meta
     /\ \A i \in 1..Len(xml_record.authors) : xml_record.authors[i].keyname.kind = "text")
    => (/\ pc = "built"
        /\ Len(record_dict.val.authors) = Len(xml_record.authors)
        /\ Len(record_dict.val.authors_fullnames) = Len(xml_record.authors)
        /\ \A i \in 1..Len(xml_record.authors) :
            /\ IsLowerOf(record_dict.val.authors[i], xml_record.authors[i].keyname.s)
            /\ IsStripOf(record_dict.val.authors_fullnames[i],
                         GivenName(xml_record.authors[i]) \o <<" ">>
                             \o record_dict.val.authors[i])
            /\ xml_record.authors[i].forenames.kind = "absent" =>
                 record_dict.val.authors_fullnames[i] = record_dict.val.authors[i])

\* C17: a missing affiliation makes nothing raise, and the affiliation of a
\* Record has no entry or one per author: one per author, the affiliation
\* text in small letters in document order, when every author has an
\* affiliation text, and none when some author has not or there is no author.
C17_AffiliationAllOrNothing ==
    /\ pc = "raised" => RaisedOverNames
    /\ pc = "built" =>
        /\ Len(record_dict.val.affiliation) \in {0, Len(record_dict.val.authors)}
        /\ IF \A i \in 1..Len(xml_record.authors) :
                 xml_record.authors[i].affiliation.kind = "text"
           THEN /\ Len(record_dict.val.affiliation) = Len(xml_record.authors)
                /\ \A i \in 1..Len(xml_record.authors) :
                     IsLowerOf(record_dict.val.affiliation[i],
                               xml_record.authors[i].affiliation.s)
           ELSE record_dict.val.affiliation = <<>>

\* C17's case: the first of two authors has an affiliation, the second has
\* none, and the Record has two authors and no affiliation.
C17_Witness ==
    /\ pc = "built"
    /\ Len(xml_record.authors) = 2
    /\ xml_record.authors[1].affiliation = Text(<<"X">>)
    /\ xml_record.authors[2].affiliation = Absent
    /\ record_dict.val.authors = <<<<"b", "a">>, <<"b", "a">>>>
    /\ record_dict.val.affiliation = <<>>

\* C18: the two steps of a throttled iteration of scrape(), the 503 answer
\* and the sleep, leave elapsed, lastlog, the url and the results as they
\* were.
C18_ThrottleFrame ==
    [][(Answered(503) \/ pc = "sleep") =>
            /\ elapsed' = elapsed
            /\ lastlog' = lastlog
            /\ url' = url
            /\ results' = results]_vars

\* C18's case: a throttled iteration has ended after a page that took a
\* second and left a record and a token.
C18_Witness ==
    /\ pc = "fetch"
    /\ status = 503
    /\ nsleep = 1
    /\ npages = 1
    /\ elapsed = 1
    /\ lastlog = 1
    /\ results = outputs(<<"r1">>)
    /\ url = <<<<"verb", <<"ListRecords">>>>, <<"resumptionToken", <<"t", "1">>>>>>

\* C19: whenever scrape() is about to issue a request, sleeps, or has
\* returned, its results are what the filter keeps, in order, of all the
\* records of the pages fetched so far, the last page whole; what it
\* returns is these results.
C19_WholePages ==
    pc \in {"fetch", "sleep", "done"} =>
        /\ results = Kept(delivered)
        /\ pc = "done" => ret = Some(Kept(delivered))
        /\ pc # "done" => ret = None

\* C19's case: scrape() returned on the timeout after the second page, which
\* had a token, with the records of both pages that the filter keeps.
C19_Witness ==
    /\ pc = "done"
    /\ timeout = Some(1)
    /\ lastpage.token.kind = "text"
    /\ npages = 2
    /\ ~append_all
    /\ delivered = <<"r2", "r1", "r1">>
    /\ ret = Some(outputs(<<"r1", "r1">>))

\* C20: when the server throttles only finitely often, and neither answers
\* with another HTTP error nor delivers a malformed record, and the
\* category and the filter keys are valid, scrape() eventually returns (the
\* server's chain of pages is finite: it issues no token with its last page).
C20_EventuallyReturns ==
    (<>[](pc \notin {"sleep", "ls_sleep"}))
        => <>(pc = "done" \/ err \in {"HTTPError", "AttributeError", "KeyError"})

=============================================================================
